---- MODULE Spec2Model ----
(***************************************************************************)
(* State-machine model of the bug_bounty_platform Anchor program           *)
(* (programs/bug-bounty-platform/src/lib.rs): the vault ledger, the report *)
(* lifecycle, payout settlement and reputation issuance.                   *)
(*                                                                         *)
(* Every instruction is one atomic action (a Solana transaction either     *)
(* commits all of its account writes or none).  An instruction that fails  *)
(* leaves every account unchanged and only records its error in `last`.    *)
(* Account validation (#[derive(Accounts)]) runs before the handler body,  *)
(* so its failures (init on an existing address, a violated constraint)    *)
(* take precedence over the handler's own require! checks.                 *)
(***************************************************************************)
EXTENDS Integers, Sequences, FiniteSets, TLC

\* ------------------------------------------------------------------------
\* Bounds.  The u64 fields are modelled on a scaled-down range: MaxCount is
\* the largest value of a report counter and MaxAmount the largest token
\* amount; each stands for u64::MAX of the fields it bounds.
\* ------------------------------------------------------------------------
MaxCount == 1

MaxAmount == 1

\* ------------------------------------------------------------------------
\* Identities, accounts and instruction inputs
\* ------------------------------------------------------------------------
Keys == {"team", "gov", "res"}

Creators == {"team"}

GovernanceChoices == {"gov"}

Researchers == {"res"}

TokenAccounts == {"vaultTA", "resTA"}

\* accounts a funder offers as source and as destination of fund_vault, and
\* a researcher as destination of execute_payout
FundSources == {"resTA"}

FundDestinations == {"vaultTA", "resTA"}

PayoutDestinations == {"resTA"}

CustodyRefs == {"vaultTA"}

SeverityTier == {"Critical", "High", "Medium", "Low"}

ReportStatus == {"Pending", "Approved", "Rejected", "Paid"}

None == "None"

Times == {"now"}

ApprovalReasons == {"confirmed"}

RejectionReasons == {"invalid"}

ProjectNames == {"proj"}

\* reward schedules offered to create_bounty_vault / update_reward_tiers,
\* as <<critical, high, medium, low>>
Schedules == {<<1, 1, 0, 0>>, <<0, 0, 0, 0>>}

Amounts == 0..MaxAmount

\* address of the vault account: PDA of [VAULT_SEED, program_team]
VaultKey(team) == "vault/" \o team

\* address of a report account:
\* PDA of [REPORT_SEED, vault, researcher, vault.total_reports]
ReportKey(vk, researcher, n) == <<vk, researcher, n>>

\* owner recorded in each token account (set when the token account was
\* opened, outside this program)
TokenOwner(ta) ==
    CASE ta = "vaultTA" -> VaultKey("team")
      [] ta = "resTA" -> "res"

VARIABLES vaults, reports, nfts, balances, last

vars == <<vaults, reports, nfts, balances, last>>

accounts == <<vaults, reports, nfts, balances>>

\* ------------------------------------------------------------------------
\* Outcome bookkeeping
\* ------------------------------------------------------------------------
\* `last` is the instruction executed last and the result returned to its
\* caller
Outcome(op, result) ==
    [op |-> op, result |-> result]

Fail(op, err) ==
    /\ last' = Outcome(op, err)
    /\ UNCHANGED accounts

Init ==
    /\ vaults = [k \in {} |-> None]
    /\ reports = [k \in {} |-> None]
    /\ nfts = [k \in {} |-> None]
    /\ balances = [ta \in TokenAccounts |-> IF ta = "resTA" THEN 1 ELSE 0]
    /\ last = Outcome("init", "Ok")

\* store.put: the account at address k now holds rec
Put(store, k, rec) ==
    [x \in DOMAIN store \cup {k} |-> IF x = k THEN rec ELSE store[x]]

\* ------------------------------------------------------------------------
\* u64 arithmetic
\* ------------------------------------------------------------------------
\* mutant of checked_add: wrapping addition
checked_add_Wrapping(a, b) ==
    [some |-> TRUE, value |-> (a + b) % (MaxAmount + 1)]

\* u64::checked_add: None on overflow
checked_add(a, b) ==
    IF a + b > MaxAmount THEN [some |-> FALSE, value |-> 0]
    ELSE [some |-> TRUE, value |-> a + b]

\* `counter += 1` on a u64.  The operator is unchecked in the source: at the
\* largest value the build decides between a panic (overflow-checks on, the
\* transaction aborts) and two's-complement wrap-around (overflow-checks off).
AddAssignOne(n) ==
    IF n + 1 <= MaxCount THEN {[panic |-> FALSE, value |-> n + 1]}
    ELSE {[panic |-> TRUE, value |-> n], [panic |-> FALSE, value |-> (n + 1) % (MaxCount + 1)]}

\* ------------------------------------------------------------------------
\* Custody primitive: anchor_spl::token::transfer as called by the program.
\* Checks in the order of the SPL token processor: balance, then authority
\* (owner of the source account, who must have signed).
\* ------------------------------------------------------------------------
TransferError(bal, from, authority, signers, amount) ==
    IF bal[from] < amount THEN "InsufficientFunds"
    ELSE IF TokenOwner(from) # authority THEN "OwnerMismatch"
    ELSE IF authority \notin signers THEN "MissingRequiredSignature"
    ELSE "Ok"

TransferApply(bal, from, to, amount) ==
    IF from = to THEN bal
    ELSE [bal EXCEPT ![from] = @ - amount, ![to] = @ + amount]

\* ------------------------------------------------------------------------
\* create_bounty_vault
\* ------------------------------------------------------------------------
\* mutant of create_bounty_vault: the vault account is (re)initialised
\* whether or not its address is in use
create_bounty_vault_Reinit(program_team, governance_authority, vault_token_account, rewards, initial_funding) ==
    /\ vaults' = Put(vaults, VaultKey(program_team),
            [program_team |-> program_team,
             governance_authority |-> governance_authority,
             vault_token_account |-> vault_token_account,
             critical_reward |-> rewards[1],
             high_reward |-> rewards[2],
             medium_reward |-> rewards[3],
             low_reward |-> rewards[4],
             total_funded |-> initial_funding,
             total_paid_out |-> 0,
             total_reports |-> 0,
             approved_reports |-> 0,
             vault_active |-> TRUE])
    /\ last' = Outcome("create_bounty_vault", "Ok")
    /\ UNCHANGED <<reports, nfts, balances>>

create_bounty_vault(program_team, governance_authority, vault_token_account, rewards, initial_funding) ==
    LET vk == VaultKey(program_team) IN
    IF vk \in DOMAIN vaults
    THEN \* #[account(init, seeds = [VAULT_SEED, program_team])]: address in use
         Fail("create_bounty_vault", "AccountAlreadyInUse")
    ELSE /\ vaults' = Put(vaults, vk,
                [program_team |-> program_team,
                 governance_authority |-> governance_authority,
                 vault_token_account |-> vault_token_account,
                 critical_reward |-> rewards[1],
                 high_reward |-> rewards[2],
                 medium_reward |-> rewards[3],
                 low_reward |-> rewards[4],
                 total_funded |-> initial_funding,
                 total_paid_out |-> 0,
                 total_reports |-> 0,
                 approved_reports |-> 0,
                 vault_active |-> TRUE])
         /\ last' = Outcome("create_bounty_vault", "Ok")
         /\ UNCHANGED <<reports, nfts, balances>>

\* ------------------------------------------------------------------------
\* submit_report
\* ------------------------------------------------------------------------
\* report.payout_amount = match severity { ... }
RewardFor(vault, severity) ==
    CASE severity = "Critical" -> vault.critical_reward
      [] severity = "High" -> vault.high_reward
      [] severity = "Medium" -> vault.medium_reward
      [] severity = "Low" -> vault.low_reward

submit_report(researcher, vk, severity, now) ==
    LET vault == vaults[vk]
        rk == ReportKey(vk, researcher, vault.total_reports)
    IN
    IF rk \in DOMAIN reports
    THEN \* #[account(init, seeds = [.., vault.total_reports])]: address in use
         Fail("submit_report", "AccountAlreadyInUse")
    ELSE IF ~vault.vault_active
    THEN Fail("submit_report", "VaultInactive")
    ELSE \E inc \in AddAssignOne(vault.total_reports) :
         IF inc.panic
         THEN Fail("submit_report", "ProgramFailedToComplete")
         ELSE /\ reports' = Put(reports, rk,
                     [vault |-> vk,
                      researcher |-> researcher,
                      status |-> "Pending",
                      submitted_at |-> now,
                      approved_at |-> None,
                      paid_at |-> None,
                      approver |-> None,
                      approval_reason |-> None,
                      payout_amount |-> RewardFor(vault, severity)])
              /\ vaults' = [vaults EXCEPT ![vk].total_reports = inc.value]
              /\ last' = Outcome("submit_report", "Ok")
              /\ UNCHANGED <<nfts, balances>>

\* ------------------------------------------------------------------------
\* approve_report / reject_report
\* ------------------------------------------------------------------------
\* mutant of approve_report_check: the signer is not compared with the
\* vault's governance authority
approve_report_check_AnySigner(vk, vault, report, signer) ==
    IF report.vault # vk THEN "ConstraintRaw"
    ELSE IF report.status # "Pending" THEN "InvalidReportStatus"
    ELSE "Ok"

\* mutant of approve_report_check: a paused vault blocks the decision
approve_report_check_RequiresActive(vk, vault, report, signer) ==
    IF report.vault # vk THEN "ConstraintRaw"
    ELSE IF ~vault.vault_active THEN "VaultInactive"
    ELSE IF signer # vault.governance_authority THEN "NotGovernanceAuthority"
    ELSE IF report.status # "Pending" THEN "InvalidReportStatus"
    ELSE "Ok"

\* constraint = report.vault == vault.key(), then the two require!s
approve_report_check(vk, vault, report, signer) ==
    IF report.vault # vk THEN "ConstraintRaw"
    ELSE IF signer # vault.governance_authority THEN "NotGovernanceAuthority"
    ELSE IF report.status # "Pending" THEN "InvalidReportStatus"
    ELSE "Ok"

\* `let mut vault_mut = vault.clone(); vault_mut.approved_reports += 1;`
\* The increment is applied to a local copy that is dropped at the end of
\* the handler; the account `vault` (not even declared mut) is what is stored.
approve_report_vault(vault) ==
    LET vault_mut == [vault EXCEPT !.approved_reports = @ + 1] IN vault

approve_report(signer, vk, rk, approval_reason, now) ==
    LET vault == vaults[vk]
        report == reports[rk]
        res == approve_report_check(vk, vault, report, signer)
    IN
    IF res # "Ok" THEN Fail("approve_report", res)
    ELSE /\ reports' = [reports EXCEPT ![rk] =
                [@ EXCEPT !.status = "Approved",
                          !.approver = signer,
                          !.approved_at = now,
                          !.approval_reason = approval_reason]]
         /\ vaults' = [vaults EXCEPT ![vk] = approve_report_vault(vault)]
         /\ last' = Outcome("approve_report", "Ok")
         /\ UNCHANGED <<nfts, balances>>

\* mutant of reject_report_check: an Approved report can still be rejected
reject_report_check_AfterApproval(vk, vault, report, signer) ==
    IF report.vault # vk THEN "ConstraintRaw"
    ELSE IF signer # vault.governance_authority THEN "NotGovernanceAuthority"
    ELSE IF report.status \notin {"Pending", "Approved"} THEN "InvalidReportStatus"
    ELSE "Ok"

\* constraint = report.vault == vault.key(), then the two require!s
reject_report_check(vk, vault, report, signer) ==
    IF report.vault # vk THEN "ConstraintRaw"
    ELSE IF signer # vault.governance_authority THEN "NotGovernanceAuthority"
    ELSE IF report.status # "Pending" THEN "InvalidReportStatus"
    ELSE "Ok"

reject_report(signer, vk, rk, rejection_reason) ==
    LET vault == vaults[vk]
        report == reports[rk]
        res == reject_report_check(vk, vault, report, signer)
    IN
    IF res # "Ok" THEN Fail("reject_report", res)
    ELSE /\ reports' = [reports EXCEPT ![rk] =
                [@ EXCEPT !.status = "Rejected",
                          !.approver = signer,
                          !.approval_reason = rejection_reason]]
         /\ last' = Outcome("reject_report", "Ok")
         /\ UNCHANGED <<vaults, nfts, balances>>

\* ------------------------------------------------------------------------
\* execute_payout
\* ------------------------------------------------------------------------
\* mutant of execute_payout_check: the status of the report is not checked
execute_payout_check_AnyStatus(vk, vault, report, signer) ==
    IF report.vault # vk THEN "ConstraintRaw"
    ELSE IF report.researcher # signer THEN "UnauthorizedResearcher"
    ELSE "Ok"

\* mutant of execute_payout_check: a paid report passes the status check
execute_payout_check_Replay(vk, vault, report, signer) ==
    IF report.vault # vk THEN "ConstraintRaw"
    ELSE IF report.status \notin {"Approved", "Paid"} THEN "ReportNotApproved"
    ELSE IF report.researcher # signer THEN "UnauthorizedResearcher"
    ELSE "Ok"

\* mutant of execute_payout_check: the signer is not compared with the
\* report's researcher
execute_payout_check_AnySigner(vk, vault, report, signer) ==
    IF report.vault # vk THEN "ConstraintRaw"
    ELSE IF report.status # "Approved" THEN "ReportNotApproved"
    ELSE "Ok"

\* constraint = report.vault == vault.key(), then require!, require_eq!
execute_payout_check(vk, vault, report, signer) ==
    IF report.vault # vk THEN "ConstraintRaw"
    ELSE IF report.status # "Approved" THEN "ReportNotApproved"
    ELSE IF report.researcher # signer THEN "UnauthorizedResearcher"
    ELSE "Ok"

\* mutant of PayoutAmount: the amount is read from the vault's current
\* schedule instead of the report
PayoutAmount_CurrentSchedule(vault, report) == vault.high_reward

\* let payout_amount = report.payout_amount;
PayoutAmount(vault, report) == report.payout_amount

\* The accounts vault_token_account, researcher_token_account and
\* vault_authority are unchecked and chosen by the caller.  The CPI carries
\* the transaction's signer and, through signer_seeds
\* [VAULT_SEED, vault.program_team, vault.vault_bump], the vault's own address.
execute_payout_result(vk, vault, report, signer, bal, from, authority) ==
    LET res == execute_payout_check(vk, vault, report, signer)
        signers == {signer, VaultKey(vault.program_team)}
    IN
    IF res # "Ok" THEN res
    ELSE TransferError(bal, from, authority, signers, PayoutAmount(vault, report))

execute_payout(signer, vk, rk, from, to, authority, now) ==
    LET vault == vaults[vk]
        report == reports[rk]
        res == execute_payout_result(vk, vault, report, signer, balances, from, authority)
    IN
    IF res # "Ok" THEN Fail("execute_payout", res)
    ELSE /\ balances' = TransferApply(balances, from, to, PayoutAmount(vault, report))
         /\ reports' = [reports EXCEPT ![rk] =
                [@ EXCEPT !.status = "Paid", !.paid_at = now]]
         /\ last' = Outcome("execute_payout", "Ok")
         /\ UNCHANGED <<vaults, nfts>>

\* ------------------------------------------------------------------------
\* mint_reputation_nft
\* ------------------------------------------------------------------------
\* mutant of NftKey: the credential's address is derived from the signer
NftKey_BySigner(signer, report, rk) == <<signer, rk>>

\* The credential's address is the PDA of
\* [REPUTATION_SEED, report.researcher, report.key()]; the signer of the
\* instruction only pays for the account.
NftKey(signer, report, rk) == <<report.researcher, rk>>

\* #[account(init, seeds = [..])] on reputation_nft (account validation),
\* then require!(report.status == Paid) in the handler
mint_reputation_nft_check(nk, report) ==
    IF nk \in DOMAIN nfts THEN "AccountAlreadyInUse"
    ELSE IF report.status # "Paid" THEN "ReportNotPaid"
    ELSE "Ok"

mint_reputation_nft(signer, rk, project_name, now) ==
    LET report == reports[rk]
        nk == NftKey(signer, report, rk)
        res == mint_reputation_nft_check(nk, report)
    IN
    IF res # "Ok" THEN Fail("mint_reputation_nft", res)
    ELSE /\ nfts' = Put(nfts, nk,
                [researcher |-> report.researcher,
                 vault |-> report.vault,
                 report |-> rk,
                 project_name |-> project_name,
                 minted_at |-> now])
         /\ last' = Outcome("mint_reputation_nft", "Ok")
         /\ UNCHANGED <<vaults, reports, balances>>

\* ------------------------------------------------------------------------
\* fund_vault
\* ------------------------------------------------------------------------
\* funder_token_account and vault_token_account are unchecked and chosen by
\* the caller; the transfer is authorised by the funder's signature.  An
\* error after the transfer aborts the transaction, transfer included.
fund_vault(funder, vk, from, to, amount) ==
    LET vault == vaults[vk]
        terr == TransferError(balances, from, funder, {funder}, amount)
        sum == checked_add(vault.total_funded, amount)
    IN
    IF terr # "Ok" THEN Fail("fund_vault", terr)
    ELSE IF ~sum.some THEN Fail("fund_vault", "ArithmeticOverflow")
    ELSE /\ balances' = TransferApply(balances, from, to, amount)
         /\ vaults' = [vaults EXCEPT ![vk].total_funded = sum.value]
         /\ last' = Outcome("fund_vault", "Ok")
         /\ UNCHANGED <<reports, nfts>>

\* ------------------------------------------------------------------------
\* toggle_vault_status / update_reward_tiers
\* ------------------------------------------------------------------------
\* constraint = vault.program_team == program_team.key() (account
\* validation), then require_eq!(.., UnauthorizedTeam) in the handler
team_check(vault, signer) ==
    IF vault.program_team # signer THEN "ConstraintRaw"
    ELSE IF signer # vault.program_team THEN "UnauthorizedTeam"
    ELSE "Ok"

toggle_vault_status(signer, vk) ==
    LET vault == vaults[vk]
        res == team_check(vault, signer)
    IN
    IF res # "Ok" THEN Fail("toggle_vault_status", res)
    ELSE /\ vaults' = [vaults EXCEPT ![vk].vault_active = ~vault.vault_active]
         /\ last' = Outcome("toggle_vault_status", "Ok")
         /\ UNCHANGED <<reports, nfts, balances>>

update_reward_tiers(signer, vk, rewards) ==
    LET vault == vaults[vk]
        res == team_check(vault, signer)
    IN
    IF res # "Ok" THEN Fail("update_reward_tiers", res)
    ELSE /\ vaults' = [vaults EXCEPT ![vk] =
                [@ EXCEPT !.critical_reward = rewards[1],
                          !.high_reward = rewards[2],
                          !.medium_reward = rewards[3],
                          !.low_reward = rewards[4]]]
         /\ last' = Outcome("update_reward_tiers", "Ok")
         /\ UNCHANGED <<reports, nfts, balances>>

\* ------------------------------------------------------------------------
\* Specification
\* ------------------------------------------------------------------------
CreateBountyVault ==
    \E t \in Creators, g \in GovernanceChoices, c \in CustodyRefs, s \in Schedules, f \in Amounts :
        create_bounty_vault(t, g, c, s, f)

SubmitReport ==
    \E r \in Researchers, vk \in DOMAIN vaults, sev \in SeverityTier, now \in Times :
        submit_report(r, vk, sev, now)

ApproveReport ==
    \E k \in Keys, vk \in DOMAIN vaults, rk \in DOMAIN reports, why \in ApprovalReasons, now \in Times :
        approve_report(k, vk, rk, why, now)

RejectReport ==
    \E k \in Keys, vk \in DOMAIN vaults, rk \in DOMAIN reports, why \in RejectionReasons :
        reject_report(k, vk, rk, why)

ExecutePayout ==
    \E k \in Keys, vk \in DOMAIN vaults, rk \in DOMAIN reports, from \in TokenAccounts, to \in PayoutDestinations, now \in Times :
        \E authority \in {k, vk} : execute_payout(k, vk, rk, from, to, authority, now)

MintReputationNFT ==
    \E k \in Keys, rk \in DOMAIN reports, name \in ProjectNames, now \in Times :
        mint_reputation_nft(k, rk, name, now)

FundVault ==
    \E k \in Keys, vk \in DOMAIN vaults, from \in FundSources, to \in FundDestinations, amount \in Amounts :
        fund_vault(k, vk, from, to, amount)

ToggleVaultStatus ==
    \E k \in Keys, vk \in DOMAIN vaults : toggle_vault_status(k, vk)

UpdateRewardTiers ==
    \E k \in Keys, vk \in DOMAIN vaults, s \in Schedules : update_reward_tiers(k, vk, s)

Next ==
    \/ CreateBountyVault
    \/ SubmitReport
    \/ ApproveReport
    \/ RejectReport
    \/ ExecutePayout
    \/ MintReputationNFT
    \/ FundVault
    \/ ToggleVaultStatus
    \/ UpdateRewardTiers

Spec == Init /\ [][Next]_vars

\* ------------------------------------------------------------------------
\* Properties
\* ------------------------------------------------------------------------
StatusOf(rk) == reports[rk].status

AllPaid == DOMAIN reports # {} /\ \A rk \in DOMAIN reports : StatusOf(rk) = "Paid"

AllowedTransitions ==
    {<<"Pending", "Approved">>, <<"Pending", "Rejected">>, <<"Approved", "Paid">>}

\* C1: across every step of every instruction, a report keeps its status or
\* moves along Pending -> Approved, Pending -> Rejected or Approved -> Paid;
\* reports are never removed and a new report starts Pending, so Paid is
\* only reached from Approved and Rejected and Paid are never left.
C1_StatusTransitions ==
    [][/\ \A rk \in DOMAIN reports :
            /\ rk \in DOMAIN reports'
            /\ \/ reports'[rk].status = reports[rk].status
               \/ <<reports[rk].status, reports'[rk].status>> \in AllowedTransitions
       /\ \A rk \in DOMAIN reports' \ DOMAIN reports : reports'[rk].status = "Pending"]_vars

\* C1 witness: a report has gone all the way to Paid, the payout being the
\* last instruction.
C1_Witness ==
    /\ last = Outcome("execute_payout", "Ok")
    /\ \E rk \in DOMAIN reports : StatusOf(rk) = "Paid" /\ reports[rk].approved_at # None

\* C2: every execute_payout call on a report that is already Paid returns
\* ReportNotApproved and changes no token balance, no vault and no report.
C2_PaidReportNotPaidAgain ==
    [][last'.op = "execute_payout" =>
        \A rk \in DOMAIN reports :
            StatusOf(rk) = "Paid" =>
                \A k \in Keys, vk \in DOMAIN vaults, from \in TokenAccounts, to \in PayoutDestinations, now \in Times :
                    \A authority \in {k, vk} :
                        execute_payout(k, vk, rk, from, to, authority, now)
                            => (last'.result = "ReportNotApproved" /\ UNCHANGED accounts)]_vars

\* C2 witness: execute_payout has just been refused with ReportNotApproved
\* while every report of the ledger is Paid.
C2_Witness ==
    /\ last = Outcome("execute_payout", "ReportNotApproved")
    /\ AllPaid

\* C3: a successful submit_report stores the reward of the schedule in force
\* for the chosen severity; no instruction changes the payout_amount of an
\* existing report; a successful execute_payout moves exactly the report's
\* payout_amount from the source to the destination account.
C3_PayoutIsSubmissionReward ==
    [][/\ last' = Outcome("submit_report", "Ok") =>
            \A r \in Researchers, vk \in DOMAIN vaults, sev \in SeverityTier, now \in Times :
                submit_report(r, vk, sev, now) =>
                    reports'[ReportKey(vk, r, vaults[vk].total_reports)].payout_amount
                        = RewardFor(vaults[vk], sev)
       /\ \A rk \in DOMAIN reports :
            rk \in DOMAIN reports' /\ reports'[rk].payout_amount = reports[rk].payout_amount
       /\ last' = Outcome("execute_payout", "Ok") =>
            \A k \in Keys, vk \in DOMAIN vaults, rk \in DOMAIN reports, from \in TokenAccounts, to \in PayoutDestinations, now \in Times :
                \A authority \in {k, vk} :
                    execute_payout(k, vk, rk, from, to, authority, now) =>
                        IF from = to THEN balances' = balances
                        ELSE /\ balances'[from] = balances[from] - reports[rk].payout_amount
                             /\ balances'[to] = balances[to] + reports[rk].payout_amount]_vars

\* C3 witness: the only report has just been paid its amount of 1 although
\* no tier of the vault's current schedule is worth 1 any more.
C3_Witness ==
    /\ last = Outcome("execute_payout", "Ok")
    /\ \E rk \in DOMAIN reports :
        /\ DOMAIN reports = {rk}
        /\ StatusOf(rk) = "Paid"
        /\ reports[rk].payout_amount = 1
        /\ balances["resTA"] = 1
        /\ \A sev \in SeverityTier : RewardFor(vaults[reports[rk].vault], sev) = 0

\* C4: in every reachable state a vault's approved_reports equals the number
\* of its reports that are Approved or Paid.
C4_ApprovedReportsCounted ==
    \A vk \in DOMAIN vaults :
        vaults[vk].approved_reports =
            Cardinality({rk \in DOMAIN reports :
                reports[rk].vault = vk /\ StatusOf(rk) \in {"Approved", "Paid"}})

\* C5: approve_report and reject_report called by anyone but the governance
\* authority recorded in the report's vault return NotGovernanceAuthority and
\* leave every report unchanged; a step that takes a report out of Pending is
\* an approve_report or reject_report call signed by that authority.
C5_OnlyGovernanceDecides ==
    [][/\ last'.op = "approve_report" =>
            \A k \in Keys, vk \in DOMAIN vaults, rk \in DOMAIN reports, why \in ApprovalReasons, now \in Times :
                (/\ k # vaults[vk].governance_authority
                 /\ reports[rk].vault = vk
                 /\ approve_report(k, vk, rk, why, now))
                    => (last'.result = "NotGovernanceAuthority" /\ reports' = reports)
       /\ last'.op = "reject_report" =>
            \A k \in Keys, vk \in DOMAIN vaults, rk \in DOMAIN reports, why \in RejectionReasons :
                (/\ k # vaults[vk].governance_authority
                 /\ reports[rk].vault = vk
                 /\ reject_report(k, vk, rk, why))
                    => (last'.result = "NotGovernanceAuthority" /\ reports' = reports)
       /\ \A rk \in DOMAIN reports :
            (StatusOf(rk) = "Pending" /\ reports'[rk].status # "Pending") =>
                LET vk == reports[rk].vault
                    g == vaults[vk].governance_authority
                IN \/ \E why \in ApprovalReasons, now \in Times : approve_report(g, vk, rk, why, now)
                   \/ \E why \in RejectionReasons : reject_report(g, vk, rk, why)]_vars

\* C5 witness: an approve_report has just been refused with
\* NotGovernanceAuthority and the reports are all still Pending.
C5_Witness ==
    /\ last = Outcome("approve_report", "NotGovernanceAuthority")
    /\ DOMAIN reports # {}
    /\ \A rk \in DOMAIN reports : StatusOf(rk) = "Pending" /\ reports[rk].approver = None

\* C6: total_reports, approved_reports and total_funded of every vault never
\* decrease from one state to the next.
C6_CountersMonotonic ==
    [][\A vk \in DOMAIN vaults :
        /\ vaults'[vk].total_reports >= vaults[vk].total_reports
        /\ vaults'[vk].approved_reports >= vaults[vk].approved_reports
        /\ vaults'[vk].total_funded >= vaults[vk].total_funded]_vars

\* C7: submit_report against an active vault whose total_reports is at the
\* largest value of the counter (the report address being free) returns
\* ArithmeticOverflow and changes nothing.
C7_SubmitAtMaxFailsClosed ==
    [][last'.op = "submit_report" =>
        \A r \in Researchers, vk \in DOMAIN vaults, sev \in SeverityTier, now \in Times :
            (/\ vaults[vk].total_reports = MaxCount
             /\ vaults[vk].vault_active
             /\ ReportKey(vk, r, MaxCount) \notin DOMAIN reports
             /\ submit_report(r, vk, sev, now))
                => (last'.result = "ArithmeticOverflow" /\ UNCHANGED accounts)]_vars

\* C8 as claimed: fund_vault with total_funded + amount above the largest
\* value returns ArithmeticOverflow and changes no vault and no balance.
C8_Original ==
    [][last'.op = "fund_vault" =>
        \A k \in Keys, vk \in DOMAIN vaults, from \in FundSources, to \in FundDestinations, amount \in Amounts :
            (vaults[vk].total_funded + amount > MaxAmount /\ fund_vault(k, vk, from, to, amount))
                => (last'.result = "ArithmeticOverflow" /\ UNCHANGED accounts)]_vars

\* C8 amended: fund_vault with total_funded + amount above the largest value
\* always fails and changes no vault and no balance; the error is
\* ArithmeticOverflow whenever the custody transfer of amount out of the
\* funder's account succeeds (the funder owns the source account and it
\* holds amount), and the custody primitive's error otherwise.
C8_FundOverflowFailsClosed ==
    [][last'.op = "fund_vault" =>
        \A k \in Keys, vk \in DOMAIN vaults, from \in FundSources, to \in FundDestinations, amount \in Amounts :
            (vaults[vk].total_funded + amount > MaxAmount /\ fund_vault(k, vk, from, to, amount))
                => /\ last'.result # "Ok"
                   /\ UNCHANGED accounts
                   /\ (balances[from] >= amount /\ TokenOwner(from) = k)
                        => last'.result = "ArithmeticOverflow"
                   /\ ~(balances[from] >= amount /\ TokenOwner(from) = k)
                        => last'.result \in {"InsufficientFunds", "OwnerMismatch"}]_vars

\* C8 witness: a fund_vault has just been refused with ArithmeticOverflow by
\* a vault whose total_funded is at the largest value.
C8_Witness ==
    /\ last = Outcome("fund_vault", "ArithmeticOverflow")
    /\ \E vk \in DOMAIN vaults : vaults[vk].total_funded = MaxAmount

\* C9: submit_report against a paused vault returns VaultInactive, creates
\* no report and leaves total_reports unchanged.
C9_PausedSubmitVaultInactive ==
    [][last'.op = "submit_report" =>
        \A r \in Researchers, vk \in DOMAIN vaults, sev \in SeverityTier, now \in Times :
            (~vaults[vk].vault_active /\ submit_report(r, vk, sev, now))
                => /\ last'.result = "VaultInactive"
                   /\ reports' = reports
                   /\ vaults'[vk].total_reports = vaults[vk].total_reports]_vars

\* the vault as it would be with the active flag the other way round
Twin(vault) == [vault EXCEPT !.vault_active = ~@]

\* C10: in every reachable state, for every caller and every report, the
\* result of approve_report, of reject_report and of execute_payout (for every
\* choice of source account and authority) is the result the same call has
\* with the vault's active flag the other way round.
C10_PauseDoesNotBlockInFlight ==
    \A vk \in DOMAIN vaults, rk \in DOMAIN reports, k \in Keys :
        /\ approve_report_check(vk, vaults[vk], reports[rk], k)
                = approve_report_check(vk, Twin(vaults[vk]), reports[rk], k)
        /\ reject_report_check(vk, vaults[vk], reports[rk], k)
                = reject_report_check(vk, Twin(vaults[vk]), reports[rk], k)
        /\ \A from \in TokenAccounts, authority \in {k, vk} :
                execute_payout_result(vk, vaults[vk], reports[rk], k, balances, from, authority)
                    = execute_payout_result(vk, Twin(vaults[vk]), reports[rk], k, balances, from, authority)

\* C10 witness: in a paused vault every report is Paid, the payout being the
\* last instruction executed (so it ran while the vault was paused).
C10_Witness ==
    /\ last = Outcome("execute_payout", "Ok")
    /\ AllPaid
    /\ \A vk \in DOMAIN vaults : ~vaults[vk].vault_active

\* credentials issued for a report
CredentialsOf(store, rk) == {nk \in DOMAIN store : store[nk].report = rk}

ReportsOf(store, vk) == {rk \in DOMAIN store : store[rk].vault = vk}

\* C12: a successful submit_report creates its report at the address derived
\* from (vault, researcher, total_reports before the call), that address was
\* free, every report stored before is still stored unchanged, and afterwards
\* the number of reports stored for the vault equals its total_reports.
C12_DistinctReportAddresses ==
    [][last' = Outcome("submit_report", "Ok") =>
        \A r \in Researchers, vk \in DOMAIN vaults, sev \in SeverityTier, now \in Times :
            submit_report(r, vk, sev, now) =>
                LET rk == ReportKey(vk, r, vaults[vk].total_reports) IN
                /\ rk \notin DOMAIN reports
                /\ DOMAIN reports' = DOMAIN reports \cup {rk}
                /\ \A x \in DOMAIN reports : reports'[x] = reports[x]
                /\ Cardinality(ReportsOf(reports', vk)) = vaults'[vk].total_reports]_vars

\* C13: toggle_vault_status and update_reward_tiers signed by anyone but the
\* vault's owning team return UnauthorizedTeam and leave the vault (its active
\* flag and its four reward amounts) unchanged.
C13_NonOwnerUnauthorizedTeam ==
    [][/\ last'.op = "toggle_vault_status" =>
            \A k \in Keys, vk \in DOMAIN vaults :
                (k # vaults[vk].program_team /\ toggle_vault_status(k, vk))
                    => (last'.result = "UnauthorizedTeam" /\ vaults' = vaults)
       /\ last'.op = "update_reward_tiers" =>
            \A k \in Keys, vk \in DOMAIN vaults, s \in Schedules :
                (k # vaults[vk].program_team /\ update_reward_tiers(k, vk, s))
                    => (last'.result = "UnauthorizedTeam" /\ vaults' = vaults)]_vars

\* C14: every execute_payout call on an Approved report (given with its own
\* vault) signed by anyone but the report's researcher returns
\* UnauthorizedResearcher, changes no balance and leaves the report Approved
\* with paid_at unset.
C14_OnlyResearcherClaims ==
    [][last'.op = "execute_payout" =>
        \A rk \in DOMAIN reports :
            StatusOf(rk) = "Approved" =>
                \A k \in Keys \ {reports[rk].researcher}, from \in TokenAccounts, to \in PayoutDestinations, now \in Times :
                    \A authority \in {k, reports[rk].vault} :
                        execute_payout(k, reports[rk].vault, rk, from, to, authority, now)
                            => /\ last'.result = "UnauthorizedResearcher"
                               /\ balances' = balances
                               /\ reports'[rk].status = "Approved"
                               /\ reports'[rk].paid_at = None
                               /\ UNCHANGED accounts]_vars

\* C14 witness: an execute_payout has just been refused with
\* UnauthorizedResearcher and the ledger's reports are all Approved, unpaid.
C14_Witness ==
    /\ last = Outcome("execute_payout", "UnauthorizedResearcher")
    /\ DOMAIN reports # {}
    /\ \A rk \in DOMAIN reports : StatusOf(rk) = "Approved" /\ reports[rk].paid_at = None

\* C15: approve_report and reject_report signed by the governance authority of
\* the report's vault succeed on a Pending report and take it out of Pending;
\* on a report that is Approved, Rejected or Paid they return
\* InvalidReportStatus and change nothing.  Hence of an approve and a reject
\* submitted for the same Pending report, the one executed first succeeds and
\* the other returns InvalidReportStatus.
C15_DecisionFiresOnce ==
    [][/\ last'.op = "approve_report" =>
            \A rk \in DOMAIN reports, why \in ApprovalReasons, now \in Times :
                LET vk == reports[rk].vault
                    g == vaults[vk].governance_authority
                IN approve_report(g, vk, rk, why, now) =>
                    IF StatusOf(rk) = "Pending"
                    THEN last'.result = "Ok" /\ reports'[rk].status = "Approved"
                    ELSE last'.result = "InvalidReportStatus" /\ UNCHANGED accounts
       /\ last'.op = "reject_report" =>
            \A rk \in DOMAIN reports, why \in RejectionReasons :
                LET vk == reports[rk].vault
                    g == vaults[vk].governance_authority
                IN reject_report(g, vk, rk, why) =>
                    IF StatusOf(rk) = "Pending"
                    THEN last'.result = "Ok" /\ reports'[rk].status = "Rejected"
                    ELSE last'.result = "InvalidReportStatus" /\ UNCHANGED accounts]_vars

\* C15 witness: a reject_report has just been refused with
\* InvalidReportStatus on a ledger whose reports are all Approved.
C15_Witness ==
    /\ last = Outcome("reject_report", "InvalidReportStatus")
    /\ DOMAIN reports # {}
    /\ \A rk \in DOMAIN reports : StatusOf(rk) = "Approved" /\ reports[rk].approver # None

\* custody account recorded in the vault of a report
CustodyOf(rk) == vaults[reports[rk].vault].vault_token_account

\* C16: value leaves custody exactly when a report becomes Paid.  Stated per
\* step (both sides of the equality "value moved out of custody by payouts =
\* sum of payout_amount over Paid reports" start at 0): a successful
\* execute_payout marks the report Paid and lowers the balance of the vault's
\* custody account by the report's payout_amount; an execute_payout whose
\* custody transfer fails leaves the report Approved with paid_at unset and
\* every balance as it was.
C16_PaidIffValueMoved ==
    [][last'.op = "execute_payout" =>
        \A k \in Keys, vk \in DOMAIN vaults, rk \in DOMAIN reports, from \in TokenAccounts, to \in PayoutDestinations, now \in Times :
            \A authority \in {k, vk} :
                (/\ execute_payout_check(vk, vaults[vk], reports[rk], k) = "Ok"
                 /\ execute_payout(k, vk, rk, from, to, authority, now))
                    => IF last'.result = "Ok"
                       THEN /\ reports'[rk].status = "Paid"
                            /\ balances'[CustodyOf(rk)] = balances[CustodyOf(rk)] - reports[rk].payout_amount
                       ELSE /\ reports'[rk].status = "Approved"
                            /\ reports'[rk].paid_at = None
                            /\ balances' = balances]_vars

\* C17: every successful execute_payout takes its source account to be the
\* custody account recorded in the report's vault, and debits it.
C17_SourceIsRecordedCustody ==
    [][last' = Outcome("execute_payout", "Ok") =>
        \A k \in Keys, vk \in DOMAIN vaults, rk \in DOMAIN reports, from \in TokenAccounts, to \in PayoutDestinations, now \in Times :
            \A authority \in {k, vk} :
                execute_payout(k, vk, rk, from, to, authority, now)
                    => /\ from = CustodyOf(rk)
                       /\ \A ta \in TokenAccounts \ {CustodyOf(rk), to} : balances'[ta] = balances[ta]]_vars

\* C18: a successful fund_vault(amount) raises the vault's total_funded by
\* amount, lowers the funder's source account by amount and raises the
\* balance of the custody account recorded in the vault by amount.
C18_FundingReachesCustody ==
    [][last' = Outcome("fund_vault", "Ok") =>
        \A k \in Keys, vk \in DOMAIN vaults, from \in FundSources, to \in FundDestinations, amount \in Amounts :
            fund_vault(k, vk, from, to, amount)
                => /\ vaults'[vk].total_funded = vaults[vk].total_funded + amount
                   /\ balances'[from] = balances[from] - amount
                   /\ balances'[vaults[vk].vault_token_account]
                        = balances[vaults[vk].vault_token_account] + amount]_vars

\* sum of payout_amount over a set of reports
RECURSIVE SumPayout(_)
SumPayout(S) ==
    IF S = {} THEN 0
    ELSE LET rk == CHOOSE x \in S : TRUE IN reports[rk].payout_amount + SumPayout(S \ {rk})

\* C19: in every reachable state, for every vault, the payout_amount of its
\* Paid reports sums to at most the vault's total_funded.
C19_PaidWithinFunded ==
    \A vk \in DOMAIN vaults :
        SumPayout({rk \in ReportsOf(reports, vk) : StatusOf(rk) = "Paid"}) <= vaults[vk].total_funded

\* C20: the vault address depends on the owning team alone, so no two vaults
\* have the same owning team, and a create_bounty_vault by a team that has a
\* vault fails and leaves every vault (schedule, counters, governance
\* authority, active flag) unchanged.
C20_OneVaultPerTeam ==
    [][/\ \A v1 \in DOMAIN vaults', v2 \in DOMAIN vaults' :
            vaults'[v1].program_team = vaults'[v2].program_team => v1 = v2
       /\ last'.op = "create_bounty_vault" =>
            \A t \in Creators, g \in GovernanceChoices, c \in CustodyRefs, s \in Schedules, f \in Amounts :
                (/\ \E vk \in DOMAIN vaults : vaults[vk].program_team = t
                 /\ create_bounty_vault(t, g, c, s, f))
                    => (last'.result # "Ok" /\ vaults' = vaults)]_vars

\* C20 witness: a second create_bounty_vault has just been refused while the
\* team's vault is paused and has counted a report.
C20_Witness ==
    /\ last = Outcome("create_bounty_vault", "AccountAlreadyInUse")
    /\ \E vk \in DOMAIN vaults :
        /\ vaults[vk].program_team = "team"
        /\ vaults[vk].total_reports > 0
        /\ ~vaults[vk].vault_active

====
